---------------------------- MODULE Spec2Model ----------------------------
(***************************************************************************)
(* A model of the bdk-ffi binding layer (src/src/lib.rs): the immutable    *)
(* TxBuilder, the mutex-protected Wallet and PSBT handles, the progress    *)
(* adapter, Wallet::new and the two key helpers.                           *)
(***************************************************************************)
EXTENDS Integers, Sequences, FiniteSets, TLC

VARIABLES
    builders,   \* the TxBuilder handles created so far (Arc<TxBuilder>), by handle number
    bcalls,     \* history: for each handle, the configuration calls that produced it
    wallets,    \* the Wallet handles: mutex holder, poison flag and engine state
    psbts,      \* the PSBT handles: mutex holder, poison flag and PSBT contents
    snapshots,  \* history: for each PSBT handle, its contents whenever no sign was running
    mempool,    \* the transactions the blockchain backend has accepted
    start,      \* history: the wallets and PSBT handles the threads started from
    pc,         \* each foreign thread's position in the call it is making
    call,       \* each thread's call: the operation, its arguments, the engine's outcome
    loc,        \* each thread's local variables
    ret,        \* what each thread's call returned
    ctor,       \* the Wallet::new call in progress: position, arguments, what it made
    keys        \* the last two key-helper calls, each with its arguments and result

vars == <<builders, bcalls, wallets, psbts, snapshots, mempool, start, pc, call, loc, ret,
          ctor, keys>>
\* what no call of a thread on a wallet or PSBT handle touches
outside == <<builders, bcalls, start, ctor, keys>>
threadvars == <<wallets, psbts, snapshots, mempool, start, pc, call, loc, ret, ctor, keys>>

(***************************************************************************)
(* Bounds of the model.                                                    *)
(***************************************************************************)
MaxHandles == 4     \* TxBuilder handles created in one behaviour
NumThreads == 2     \* foreign threads calling into the binding
NumInputs == 2      \* inputs of a PSBT
MaxUpdates == 2     \* progress updates the engine issues during one sync
MaxPsbts == 2       \* PSBT handles alive in one behaviour

Threads == 1..NumThreads
Inputs == 1..NumInputs
NoThread == 0

(***************************************************************************)
(* Option<T>: None is the empty sequence, Some(x) the one-element one.     *)
(***************************************************************************)
None == <<>>
Some(x) == <<x>>

\* Address strings a caller may pass: one that parses and one that does not.
Addresses == {"tb1qgood", "bogus"}
Amounts == {1000, 2000}
FeeRates == {1, 2}

(***************************************************************************)
(* TxBuilder: an immutable record; every configuration method returns a    *)
(* new handle to a copy.                                                   *)
(***************************************************************************)
TxBuilder_new ==
    [recipients |-> <<>>, fee_rate |-> None, drain_wallet |-> FALSE, drain_to |-> None]

TxBuilder_add_recipient(self, recipient, amount) ==
    [recipients |-> self.recipients \o <<(<<recipient, amount>>)>>,
     fee_rate |-> self.fee_rate,
     drain_wallet |-> self.drain_wallet,
     drain_to |-> self.drain_to]

\* A copy that forgets the drain address (a field left out of the copy).
TxBuilder_fee_rate_forgetful(self, sat_per_vb) ==
    [recipients |-> self.recipients,
     fee_rate |-> Some(sat_per_vb),
     drain_wallet |-> self.drain_wallet,
     drain_to |-> None]

TxBuilder_fee_rate(self, sat_per_vb) ==
    [recipients |-> self.recipients,
     fee_rate |-> Some(sat_per_vb),
     drain_wallet |-> self.drain_wallet,
     drain_to |-> self.drain_to]

TxBuilder_drain_wallet(self) ==
    [recipients |-> self.recipients,
     fee_rate |-> self.fee_rate,
     drain_wallet |-> TRUE,
     drain_to |-> self.drain_to]

TxBuilder_drain_to(self, address) ==
    [recipients |-> self.recipients,
     fee_rate |-> self.fee_rate,
     drain_wallet |-> self.drain_wallet,
     drain_to |-> Some(address)]

(***************************************************************************)
(* The foreign caller's builder calls.  Each returns a fresh handle; the   *)
(* handle it was called on stays in the caller's hands.                    *)
(***************************************************************************)
NewHandle(b, history) ==
    /\ Len(builders) < MaxHandles
    /\ builders' = Append(builders, b)
    /\ bcalls' = Append(bcalls, history)
    /\ UNCHANGED threadvars

CallNew ==
    NewHandle(TxBuilder_new, <<>>)

CallAddRecipient ==
    \E h \in DOMAIN builders, a \in Addresses, n \in Amounts :
        NewHandle(TxBuilder_add_recipient(builders[h], a, n),
                  Append(bcalls[h], [m |-> "add_recipient", address |-> a, amount |-> n]))

CallFeeRate ==
    \E h \in DOMAIN builders, f \in FeeRates :
        NewHandle(TxBuilder_fee_rate(builders[h], f),
                  Append(bcalls[h], [m |-> "fee_rate", sat_per_vb |-> f]))

CallDrainWallet ==
    \E h \in DOMAIN builders :
        NewHandle(TxBuilder_drain_wallet(builders[h]),
                  Append(bcalls[h], [m |-> "drain_wallet"]))

CallDrainTo ==
    \E h \in DOMAIN builders, a \in Addresses :
        NewHandle(TxBuilder_drain_to(builders[h], a),
                  Append(bcalls[h], [m |-> "drain_to", address |-> a]))

(***************************************************************************)
(* Values crossing the boundary.  A Result is Ok(v) or Err(e); a method    *)
(* that returns a plain value returns Val(v); a call that unwinds is       *)
(* Panic(m).                                                               *)
(***************************************************************************)
Ok(v) == [kind |-> "Ok", val |-> v]
Err(e) == [kind |-> "Err", val |-> e]
Val(v) == [kind |-> "Val", val |-> v]
Panic(m) == [kind |-> "Panic", val |-> m]
NoRet == [kind |-> "None", val |-> ""]
Unit == "()"

\* bdk::Error: a variant and its message, a sequence of words.
BdkError(variant, msg) == [variant |-> variant, msg |-> msg]
Generic(msg) == BdkError("Generic", msg)

\* The words of `msg` contain the words of `phrase`, in a row.
Contains(msg, phrase) ==
    \E i \in 0..(Len(msg) - Len(phrase)) :
        \A j \in 1..Len(phrase) : msg[i + j] = phrase[j]

(***************************************************************************)
(* Address::from_str and to_script_pubkey.  The parser's error is one of   *)
(* rust-bitcoin's address errors; its Display text names the defect.       *)
(***************************************************************************)
ValidAddresses == {"tb1qgood"}

Address_from_str(address) ==
    IF address \in ValidAddresses
    THEN Ok([payload |-> address])
    ELSE Err("Base58")

AddressError_to_string(e) ==
    IF e = "Base58"
    THEN <<"base58:", "invalid", "base58", "character">>
    ELSE <<"bech32:", "invalid", "checksum">>

script_pubkey(addr) == "script(" \o addr.payload \o ")"

\* The error text is followed by the address it was given.
to_script_pubkey_naming(address) ==
    LET r == Address_from_str(address)
    IN  IF r.kind = "Ok"
        THEN Ok(script_pubkey(r.val))
        ELSE Err(Generic(Append(AddressError_to_string(r.val), address)))

to_script_pubkey(address) ==
    LET r == Address_from_str(address)
    IN  IF r.kind = "Ok"
        THEN Ok(script_pubkey(r.val))
        ELSE Err(Generic(AddressError_to_string(r.val)))

(***************************************************************************)
(* PSBT contents: an unsigned transaction and, per input, the key that can *)
(* sign it and whether the input is finalized.  The string form lists the  *)
(* fields after the magic prefix; from_str parses it back.                 *)
(***************************************************************************)
WalletKey == "wkey"
ForeignKey == "fkey"
PsbtMagic == "cHNidP8"

PsbtInput(owner, final) == [owner |-> owner, final |-> final]

RECURSIVE InputsToString(_, _)
InputsToString(inputs, i) ==
    IF i > NumInputs
    THEN <<>>
    ELSE <<inputs[i].owner, IF inputs[i].final THEN "final" ELSE "unsigned">>
            \o InputsToString(inputs, i + 1)

Psbt_to_string(psbt) ==
    <<PsbtMagic, ToString(psbt.tx)>> \o InputsToString(psbt.inputs, 1)

TxNumbers == 0..99
Psbt_from_str(s) ==
    IF /\ Len(s) = 2 + 2 * NumInputs
       /\ s[1] = PsbtMagic
       /\ \E n \in TxNumbers : ToString(n) = s[2]
       /\ \A i \in Inputs : /\ s[1 + 2 * i] \in {WalletKey, ForeignKey}
                            /\ s[2 + 2 * i] \in {"final", "unsigned"}
    THEN Ok([tx |-> CHOOSE n \in TxNumbers : ToString(n) = s[2],
             inputs |-> [i \in Inputs |->
                            PsbtInput(s[1 + 2 * i], s[2 + 2 * i] = "final")]])
    ELSE Err(BdkError("Psbt", <<"invalid", "psbt">>))

\* extract_tx: the unsigned transaction with the witnesses of its finalized inputs.
Psbt_extract_tx(psbt) ==
    [txid |-> psbt.tx, witness |-> {i \in Inputs : psbt.inputs[i].final}]

HexDigits == <<"0", "1", "2", "3", "4", "5", "6", "7",
               "8", "9", "a", "b", "c", "d", "e", "f">>
to_hex(n) == HexDigits[(n \div 16) + 1] \o HexDigits[(n % 16) + 1]

(***************************************************************************)
(* PartiallySignedBitcoinTransaction: a mutex around the PSBT.             *)
(***************************************************************************)
PsbtHandle(psbt) == [holder |-> NoThread, poisoned |-> FALSE, psbt |-> psbt]

PartiallySignedBitcoinTransaction_new(psbt_base64) ==
    LET r == Psbt_from_str(psbt_base64)
    IN  IF r.kind = "Ok" THEN Ok(PsbtHandle(r.val)) ELSE r

(***************************************************************************)
(* The engine wallet behind a Wallet handle: its network, the index of the *)
(* last derived address and the chain height of its last sync.             *)
(***************************************************************************)
EngineWallet(network) == [network |-> network, index |-> 0, height |-> 0]
WalletHandle(network) ==
    [holder |-> NoThread, poisoned |-> FALSE, engine |-> EngineWallet(network)]

Engine_balance(eng) == eng.height * 1500

\* list_transactions: one incoming transaction per block, the newest unconfirmed.
Engine_list_transactions(eng) ==
    [i \in 1..eng.height |->
        [txid |-> i, received |-> 1500, sent |-> 0,
         fee |-> IF i = 1 THEN None ELSE Some(i),
         confirmation_time |->
            IF i < eng.height THEN Some([height |-> i, timestamp |-> 600 * i])
            ELSE None]]

Engine_address(eng, index) == "tb1q" \o eng.network \o ToString(index)

TransactionDetails_from(x) ==
    [fees |-> x.fee, txid |-> to_hex(x.txid), received |-> x.received, sent |-> x.sent]

Transaction_from(x) ==
    IF x.confirmation_time # None
    THEN [variant |-> "Confirmed", details |-> TransactionDetails_from(x),
          confirmation |-> x.confirmation_time[1]]
    ELSE [variant |-> "Unconfirmed", details |-> TransactionDetails_from(x)]

(***************************************************************************)
(* The engine's transaction builder receives the calls build makes, in     *)
(* order; finish turns them into a PSBT or an error.                       *)
(***************************************************************************)
RECURSIVE SumAmounts(_)
SumAmounts(calls) ==
    IF calls = <<>> THEN 0
    ELSE (IF Head(calls).m = "add_recipient" THEN Head(calls).amount ELSE 0)
            + SumAmounts(Tail(calls))

Engine_finish(eng, calls) ==
    IF \A i \in DOMAIN calls : calls[i].m \notin {"add_recipient", "drain_to"}
    THEN Err(BdkError("NoRecipients", <<"no", "recipients">>))
    ELSE IF SumAmounts(calls) > Engine_balance(eng)
    THEN Err(BdkError("InsufficientFunds", <<"insufficient", "funds">>))
    ELSE Ok([tx |-> 16 + 4 * Len(calls) + eng.height,
             inputs |-> [i \in Inputs |-> PsbtInput(WalletKey, FALSE)]])

(***************************************************************************)
(* Threads, mutexes and guards.  A std::sync::Mutex is free or held by one *)
(* thread; a guard dropped while its thread unwinds poisons the mutex, and *)
(* lock() on a poisoned mutex returns an error that unwrap/expect turn     *)
(* into a panic.                                                           *)
(***************************************************************************)
InitLoc == [i |-> 0, index |-> 0, tx |-> None, signed |-> None, issued |-> <<>>,
            received |-> <<>>, cb_errors |-> 0, calls |-> <<>>]

\* Every guard thread t holds is dropped at a normal return.
DropGuards(ms, t) ==
    [m \in DOMAIN ms |->
        IF ms[m].holder = t THEN [ms[m] EXCEPT !.holder = NoThread] ELSE ms[m]]

\* Every guard thread t holds is dropped while t unwinds: the mutex is poisoned.
UnwindGuards(ms, t) ==
    [m \in DOMAIN ms |->
        IF ms[m].holder = t
        THEN [ms[m] EXCEPT !.holder = NoThread, !.poisoned = TRUE]
        ELSE ms[m]]

Goto(t, label) ==
    /\ pc' = [pc EXCEPT ![t] = label]
    /\ UNCHANGED ret

Return(t, r) ==
    /\ pc' = [pc EXCEPT ![t] = "done"]
    /\ ret' = [ret EXCEPT ![t] = r]

InCall(t) == pc[t] \notin {"idle", "done"}

\* The contents of PSBT handle p are recorded when a sign on it ends.
Recorded(p, psbt) == [snapshots EXCEPT ![p] = @ \cup {psbt}]

(***************************************************************************)
(* The calls a foreign thread can make.  The engine's own outcome of a     *)
(* call (a database or network failure, the progress it reports, the chain *)
(* blocks it finds) is an input of the call.  Threads are interchangeable, *)
(* so they begin their calls in the order of their numbers.                *)
(***************************************************************************)
BuildsInFlight == Cardinality({t \in Threads : InCall(t) /\ call[t].op = "build"})

CallInputs ==
    [op : {"get_network"}, w : DOMAIN wallets]
    \cup [op : {"sync"}, w : DOMAIN wallets, updates : 0..MaxUpdates, fail : BOOLEAN,
          reenters : {FALSE}]
    \cup [op : {"get_new_address", "get_last_unused_address",
                "get_balance", "get_transactions"},
          w : DOMAIN wallets, fail : BOOLEAN]
    \cup [op : {"sign"}, w : DOMAIN wallets, p : DOMAIN psbts, fail_at : 0..NumInputs]
    \cup [op : {"broadcast"}, w : DOMAIN wallets, p : DOMAIN psbts, fail : BOOLEAN]
    \cup [op : {"serialize"}, p : DOMAIN psbts]
    \cup (IF Len(psbts) + BuildsInFlight < MaxPsbts
          THEN [op : {"build"}, w : DOMAIN wallets, b : DOMAIN builders]
          ELSE {})

EntryPc(op) ==
    IF op \in {"serialize", "sign", "broadcast"} THEN op ELSE "get_wallet"

EnginePc(op) ==
    CASE op = "sign" -> "sign_engine"
      [] op = "broadcast" -> "broadcast_engine"
      [] OTHER -> op

Begin(t, c) ==
    /\ pc[t] = "idle"
    /\ \A s \in Threads : s < t => pc[s] # "idle"
    /\ call' = [call EXCEPT ![t] = c]
    /\ pc' = [pc EXCEPT ![t] = EntryPc(c.op)]
    /\ UNCHANGED <<outside, wallets, psbts, snapshots, mempool, loc, ret>>

Call(t) == \E c \in CallInputs : Begin(t, c)

(***************************************************************************)
(* PartiallySignedBitcoinTransaction::serialize: lock, clone, unlock, then *)
(* format the clone.                                                       *)
(***************************************************************************)
\* The clone is taken without waiting for the mutex.
PSBT_serialize_unlocked(t) ==
    /\ pc[t] = "serialize"
    /\ Return(t, Val(Psbt_to_string(psbts[call[t].p].psbt)))
    /\ UNCHANGED <<outside, wallets, psbts, snapshots, mempool, call, loc>>

PSBT_serialize(t) ==
    /\ pc[t] = "serialize"
    /\ psbts[call[t].p].holder = NoThread
    /\ IF psbts[call[t].p].poisoned
       THEN Return(t, Panic("PoisonError"))
       ELSE Return(t, Val(Psbt_to_string(psbts[call[t].p].psbt)))
    /\ UNCHANGED <<outside, wallets, psbts, snapshots, mempool, call, loc>>

(***************************************************************************)
(* Wallet::get_wallet: lock the wallet mutex, panic("wallet") if poisoned. *)
(* A progress callback that calls a method of the wallet is at the same    *)
(* lock, on the thread that runs the sync; were it let in, the method      *)
(* would run and return to the callback.                                   *)
(***************************************************************************)
GetWalletPcs == {"get_wallet", "callback_get_wallet"}

\* The poison of the mutex is ignored: the guard is taken out of the error.
Wallet_get_wallet_ignoring_poison(t) ==
    /\ pc[t] \in GetWalletPcs
    /\ wallets[call[t].w].holder = NoThread
    /\ Goto(t, IF pc[t] = "get_wallet" THEN EnginePc(call[t].op) ELSE "sync")
    /\ wallets' = [wallets EXCEPT ![call[t].w].holder = t]
    /\ UNCHANGED <<outside, psbts, snapshots, mempool, call, loc>>

\* The mutex lets in the thread that holds it already.
Wallet_get_wallet_reentrant(t) ==
    /\ pc[t] \in GetWalletPcs
    /\ wallets[call[t].w].holder \in {NoThread, t}
    /\ Goto(t, IF pc[t] = "get_wallet" THEN EnginePc(call[t].op) ELSE "sync")
    /\ wallets' = [wallets EXCEPT ![call[t].w].holder = t]
    /\ UNCHANGED <<outside, psbts, snapshots, mempool, call, loc>>

\* The engine is entered without waiting for the mutex.
Wallet_get_wallet_unlocked(t) ==
    /\ pc[t] = "get_wallet"
    /\ Goto(t, EnginePc(call[t].op))
    /\ UNCHANGED <<outside, wallets, psbts, snapshots, mempool, call, loc>>

Wallet_get_wallet(t) ==
    /\ pc[t] \in GetWalletPcs
    /\ wallets[call[t].w].holder = NoThread
    /\ IF wallets[call[t].w].poisoned
       THEN /\ Return(t, Panic("wallet"))
            /\ psbts' = UnwindGuards(psbts, t)
            /\ UNCHANGED wallets
       ELSE IF pc[t] = "get_wallet"
       THEN /\ Goto(t, EnginePc(call[t].op))
            /\ wallets' = [wallets EXCEPT ![call[t].w].holder = t]
            /\ UNCHANGED psbts
       ELSE /\ Goto(t, "sync")
            /\ UNCHANGED <<wallets, psbts>>
    /\ UNCHANGED <<outside, snapshots, mempool, call, loc>>

(***************************************************************************)
(* Wallet::get_network.                                                    *)
(***************************************************************************)
Wallet_get_network(t) ==
    /\ pc[t] = "get_network"
    /\ Return(t, Val(wallets[call[t].w].engine.network))
    /\ wallets' = DropGuards(wallets, t)
    /\ UNCHANGED <<outside, psbts, snapshots, mempool, call, loc>>

(***************************************************************************)
(* Wallet::sync and the progress adapter.  The engine reports its progress *)
(* through BdkProgressHolder::update and gives up on the first error the   *)
(* adapter returns.  A successful sync finds one more block.               *)
(***************************************************************************)
CallbackOutcomes == {"returned", "failed"}

\* What the callback of call c may do with an update: return, fail, or, if it
\* is one that uses the wallet, call a method of the wallet it is syncing.
CallbackBehaviours(c) ==
    IF c.reenters THEN CallbackOutcomes \cup {"reenters"} ELSE CallbackOutcomes

\* The k-th of n updates the engine issues.
ProgressUpdate(k, n) ==
    [progress |-> (100 * k) \div n,
     message |-> IF k = n THEN Some("done") ELSE None]

\* The foreign callback object: it keeps what it was told.
BdkProgress_update(self, progress, message) ==
    Append(self, [progress |-> progress, message |-> message])

\* The adapter hands the callback's failure back to the engine.
BdkProgressHolder_update_failing(self, progress, message, outcome) ==
    [progress_update |-> BdkProgress_update(self, progress, message),
     result |-> IF outcome = "failed"
                THEN Err(Generic(<<"callback", "failed">>))
                ELSE Ok(Unit)]

BdkProgressHolder_update(self, progress, message, outcome) ==
    [progress_update |-> BdkProgress_update(self, progress, message),
     result |-> Ok(Unit)]

Wallet_sync_update(t) ==
    /\ pc[t] = "sync"
    /\ loc[t].i < call[t].updates
    /\ \E outcome \in CallbackBehaviours(call[t]) :
        LET u == ProgressUpdate(loc[t].i + 1, call[t].updates)
            r == BdkProgressHolder_update(loc[t].received, u.progress, u.message, outcome)
            l == [loc[t] EXCEPT !.i = @ + 1,
                                !.issued = Append(@, u),
                                !.received = r.progress_update,
                                !.cb_errors = IF outcome = "failed" THEN 1 ELSE @]
        IN  /\ loc' = [loc EXCEPT ![t] = l]
            /\ IF outcome = "reenters"
               THEN /\ Goto(t, "callback_get_wallet")
                    /\ UNCHANGED wallets
               ELSE IF r.result.kind = "Ok"
               THEN /\ Goto(t, "sync")
                    /\ UNCHANGED wallets
               ELSE /\ Return(t, r.result)
                    /\ wallets' = DropGuards(wallets, t)
    /\ UNCHANGED <<outside, psbts, snapshots, mempool, call>>

Wallet_sync(t) ==
    /\ pc[t] = "sync"
    /\ loc[t].i = call[t].updates
    /\ IF call[t].fail
       THEN /\ Return(t, Err(BdkError("Electrum", <<"connection", "failed">>)))
            /\ wallets' = DropGuards(wallets, t)
       ELSE /\ Return(t, Ok(Unit))
            /\ wallets' = DropGuards(
                    [wallets EXCEPT ![call[t].w].engine.height = @ + 1], t)
    /\ UNCHANGED <<outside, psbts, snapshots, mempool, call, loc>>

(***************************************************************************)
(* Wallet::get_new_address and get_last_unused_address: the engine reads   *)
(* the last index from the database, derives, and stores the new index;    *)
(* the binding unwraps the engine's result.                                *)
(***************************************************************************)
Wallet_get_new_address_read(t) ==
    /\ pc[t] = "get_new_address"
    /\ loc' = [loc EXCEPT ![t].index = wallets[call[t].w].engine.index]
    /\ Goto(t, "get_new_address_store")
    /\ UNCHANGED <<outside, wallets, psbts, snapshots, mempool, call>>

Wallet_get_new_address(t) ==
    /\ pc[t] = "get_new_address_store"
    /\ IF call[t].fail
       THEN /\ Return(t, Panic("unwrap"))
            /\ wallets' = UnwindGuards(wallets, t)
       ELSE /\ Return(t, Val(Engine_address(wallets[call[t].w].engine, loc[t].index + 1)))
            /\ wallets' = DropGuards(
                    [wallets EXCEPT ![call[t].w].engine.index = loc[t].index + 1], t)
    /\ UNCHANGED <<outside, psbts, snapshots, mempool, call, loc>>

Wallet_get_last_unused_address(t) ==
    /\ pc[t] = "get_last_unused_address"
    /\ IF call[t].fail
       THEN /\ Return(t, Panic("unwrap"))
            /\ wallets' = UnwindGuards(wallets, t)
       ELSE /\ Return(t, Val(Engine_address(wallets[call[t].w].engine,
                                            wallets[call[t].w].engine.index)))
            /\ wallets' = DropGuards(wallets, t)
    /\ UNCHANGED <<outside, psbts, snapshots, mempool, call, loc>>

(***************************************************************************)
(* Wallet::get_balance and get_transactions.                               *)
(***************************************************************************)
DatabaseError == BdkError("Database", <<"database", "read", "failed">>)

Wallet_get_balance(t) ==
    /\ pc[t] = "get_balance"
    /\ Return(t, IF call[t].fail THEN Err(DatabaseError)
                 ELSE Ok(Engine_balance(wallets[call[t].w].engine)))
    /\ wallets' = DropGuards(wallets, t)
    /\ UNCHANGED <<outside, psbts, snapshots, mempool, call, loc>>

Wallet_get_transactions(t) ==
    /\ pc[t] = "get_transactions"
    /\ Return(t, IF call[t].fail THEN Err(DatabaseError)
                 ELSE LET transactions == Engine_list_transactions(wallets[call[t].w].engine)
                      IN  Ok([i \in DOMAIN transactions |-> Transaction_from(transactions[i])]))
    /\ wallets' = DropGuards(wallets, t)
    /\ UNCHANGED <<outside, psbts, snapshots, mempool, call, loc>>

(***************************************************************************)
(* Wallet::sign: lock the PSBT, lock the wallet, let the engine sign and   *)
(* finalize the inputs one after the other, then map "not finalized" to an *)
(* error.  The PSBT guard lives to the end of the function.                *)
(***************************************************************************)
SignerError == BdkError("Signer", <<"missing", "utxo">>)

\* A sign that locks the wallet first and the PSBT second.
Wallet_sign_lock_wallet_first(t) ==
    /\ pc[t] = "sign"
    /\ IF wallets[call[t].w].holder # t
       THEN /\ wallets[call[t].w].holder = NoThread
            /\ wallets' = [wallets EXCEPT ![call[t].w].holder = t]
            /\ Goto(t, "sign")
            /\ UNCHANGED psbts
       ELSE /\ psbts[call[t].p].holder = NoThread
            /\ psbts' = [psbts EXCEPT ![call[t].p].holder = t]
            /\ Goto(t, "sign_engine")
            /\ UNCHANGED wallets
    /\ UNCHANGED <<outside, snapshots, mempool, call, loc>>

Wallet_sign_lock(t) ==
    /\ pc[t] = "sign"
    /\ psbts[call[t].p].holder = NoThread
    /\ IF psbts[call[t].p].poisoned
       THEN /\ Return(t, Panic("PoisonError"))
            /\ UNCHANGED psbts
       ELSE /\ Goto(t, "get_wallet")
            /\ psbts' = [psbts EXCEPT ![call[t].p].holder = t]
    /\ UNCHANGED <<outside, wallets, snapshots, mempool, call, loc>>

\* The engine signs and finalizes input k if the wallet's key can.
Engine_sign_input(psbt, k) ==
    IF psbt.inputs[k].owner = WalletKey
    THEN [psbt EXCEPT !.inputs[k].final = TRUE]
    ELSE psbt

Finalized(psbt) == \A i \in Inputs : psbt.inputs[i].final

Wallet_sign_input(t) ==
    /\ pc[t] = "sign_engine"
    /\ loc[t].i < NumInputs
    /\ LET p == call[t].p
           k == loc[t].i + 1
       IN  IF call[t].fail_at = k
           THEN /\ Return(t, Err(SignerError))
                /\ wallets' = DropGuards(wallets, t)
                /\ psbts' = DropGuards(psbts, t)
                /\ snapshots' = Recorded(p, psbts[p].psbt)
                /\ loc' = [loc EXCEPT ![t].signed = Some(psbts[p].psbt)]
           ELSE /\ Goto(t, "sign_engine")
                /\ psbts' = [psbts EXCEPT ![p].psbt = Engine_sign_input(@, k)]
                /\ loc' = [loc EXCEPT ![t].i = k]
                /\ UNCHANGED <<wallets, snapshots>>
    /\ UNCHANGED <<outside, mempool, call>>

\* Ok whatever the engine says about finalization.
Wallet_sign_result_lenient(psbt) ==
    Ok(Unit)

Wallet_sign_result(psbt) ==
    IF Finalized(psbt)
    THEN Ok(Unit)
    ELSE Err(Generic(<<"transaction", "signing", "not", "finalized", ToString(psbt)>>))

Wallet_sign(t) ==
    /\ pc[t] = "sign_engine"
    /\ loc[t].i = NumInputs
    /\ Return(t, Wallet_sign_result(psbts[call[t].p].psbt))
    /\ wallets' = DropGuards(wallets, t)
    /\ psbts' = DropGuards(psbts, t)
    /\ snapshots' = Recorded(call[t].p, psbts[call[t].p].psbt)
    /\ loc' = [loc EXCEPT ![t].signed = Some(psbts[call[t].p].psbt)]
    /\ UNCHANGED <<outside, mempool, call>>

(***************************************************************************)
(* Wallet::broadcast: clone the PSBT under its mutex and extract the       *)
(* transaction (the guard is a temporary of that statement), then lock the *)
(* wallet and hand the transaction to the blockchain backend.              *)
(***************************************************************************)
\* The PSBT guard is bound to a variable and lives to the end of the function.
Wallet_broadcast_extract_holding(t) ==
    /\ pc[t] = "broadcast"
    /\ psbts[call[t].p].holder = NoThread
    /\ loc' = [loc EXCEPT ![t].tx = Some(Psbt_extract_tx(psbts[call[t].p].psbt))]
    /\ psbts' = [psbts EXCEPT ![call[t].p].holder = t]
    /\ Goto(t, "get_wallet")
    /\ UNCHANGED <<outside, wallets, snapshots, mempool, call>>

Wallet_broadcast_extract(t) ==
    /\ pc[t] = "broadcast"
    /\ psbts[call[t].p].holder = NoThread
    /\ IF psbts[call[t].p].poisoned
       THEN /\ Return(t, Panic("PoisonError"))
            /\ UNCHANGED loc
       ELSE /\ Goto(t, "get_wallet")
            /\ loc' = [loc EXCEPT ![t].tx = Some(Psbt_extract_tx(psbts[call[t].p].psbt))]
    /\ UNCHANGED <<outside, wallets, psbts, snapshots, mempool, call>>

Wallet_broadcast(t) ==
    /\ pc[t] = "broadcast_engine"
    /\ IF call[t].fail
       THEN /\ Return(t, Err(BdkError("Electrum", <<"transaction", "rejected">>)))
            /\ UNCHANGED mempool
       ELSE /\ Return(t, Ok(to_hex(loc[t].tx[1].txid)))
            /\ mempool' = mempool \cup {loc[t].tx[1]}
    /\ wallets' = DropGuards(wallets, t)
    /\ psbts' = DropGuards(psbts, t)
    /\ UNCHANGED <<outside, snapshots, call, loc>>

(***************************************************************************)
(* TxBuilder::build: under the wallet mutex, replay the builder's fields   *)
(* on an engine builder (recipients first, then fee rate, drain_wallet and *)
(* drain_to) and finish.  Addresses are parsed here; the first one that    *)
(* does not parse ends the build.                                          *)
(***************************************************************************)
FeeRate_from_sat_per_vb(sat_per_vb) == [sat_per_vb |-> sat_per_vb]

\* What build has done so far: the engine-builder calls made, and the error
\* (None while there is none).
BuildState(calls, error) == [calls |-> calls, error |-> error]

RECURSIVE BuildRecipients(_, _, _)
BuildRecipients(recipients, i, calls) ==
    IF i > Len(recipients)
    THEN BuildState(calls, None)
    ELSE LET script == to_script_pubkey(recipients[i][1])
         IN  IF script.kind = "Err"
             THEN BuildState(calls, Some(script.val))
             ELSE BuildRecipients(recipients, i + 1,
                    Append(calls, [m |-> "add_recipient", script |-> script.val,
                                   amount |-> recipients[i][2]]))

BuildFeeRate(self, st) ==
    IF st.error = None /\ self.fee_rate # None
    THEN BuildState(Append(st.calls, [m |-> "fee_rate",
                                      rate |-> FeeRate_from_sat_per_vb(self.fee_rate[1])]),
                    None)
    ELSE st

BuildDrainWallet(self, st) ==
    IF st.error = None /\ self.drain_wallet
    THEN BuildState(Append(st.calls, [m |-> "drain_wallet"]), None)
    ELSE st

BuildDrainTo(self, st) ==
    IF st.error = None /\ self.drain_to # None
    THEN LET script == to_script_pubkey(self.drain_to[1])
         IN  IF script.kind = "Err"
             THEN BuildState(st.calls, Some(script.val))
             ELSE BuildState(Append(st.calls, [m |-> "drain_to", script |-> script.val]),
                             None)
    ELSE st

BuildFinish(st) ==
    IF st.error = None
    THEN BuildState(Append(st.calls, [m |-> "finish"]), None)
    ELSE st

\* A build that sets the drain address before it adds the recipients.
BuildCalls_drain_first(self) ==
    BuildFinish(
        BuildDrainWallet(self,
            BuildFeeRate(self,
                LET drained == BuildDrainTo(self, BuildState(<<>>, None))
                    added == BuildRecipients(self.recipients, 1, drained.calls)
                IN  IF drained.error # None THEN drained ELSE added)))

\* The engine-builder calls build makes for builder `self`, up to finish.
BuildCalls(self) ==
    BuildFinish(
        BuildDrainTo(self,
            BuildDrainWallet(self,
                BuildFeeRate(self,
                    BuildRecipients(self.recipients, 1, <<>>)))))

TxBuilder_build(t) ==
    /\ pc[t] = "build"
    /\ LET st == BuildCalls(builders[call[t].b])
           finished == Engine_finish(wallets[call[t].w].engine, st.calls)
       IN  /\ loc' = [loc EXCEPT ![t].calls = st.calls]
           /\ IF st.error # None
              THEN /\ Return(t, Err(st.error[1]))
                   /\ UNCHANGED <<psbts, snapshots>>
              ELSE IF finished.kind = "Err"
              THEN /\ Return(t, finished)
                   /\ UNCHANGED <<psbts, snapshots>>
              ELSE /\ Return(t, Ok(Len(psbts) + 1))
                   /\ psbts' = Append(psbts, PsbtHandle(finished.val))
                   /\ snapshots' = Append(snapshots, {finished.val})
    /\ wallets' = DropGuards(wallets, t)
    /\ UNCHANGED <<outside, mempool, call>>

(***************************************************************************)
(* The concurrent specification: one Wallet handle and one PSBT handle     *)
(* made by PartiallySignedBitcoinTransaction::new, shared by all threads;  *)
(* three builder handles; every thread makes one call.                     *)
(***************************************************************************)
Networks == {"bitcoin", "testnet", "signet", "regtest"}

\* The PSBT strings the foreign side may hold: every input but the last is the
\* wallet's and unsigned; the last is the wallet's, or someone else's.
InitialPsbtStrings ==
    { Psbt_to_string([tx |-> 1,
                      inputs |-> [i \in Inputs |->
                                    IF i < NumInputs THEN PsbtInput(WalletKey, FALSE)
                                    ELSE last]])
      : last \in {PsbtInput(WalletKey, FALSE), PsbtInput(ForeignKey, FALSE),
                  PsbtInput(ForeignKey, TRUE)} }

SharedBuilders ==
    << TxBuilder_new,
       TxBuilder_add_recipient(TxBuilder_new, "tb1qgood", 1000),
       TxBuilder_drain_to(TxBuilder_add_recipient(TxBuilder_new, "tb1qgood", 2000), "bogus") >>

SharedCalls ==
    << <<>>,
       <<[m |-> "add_recipient", address |-> "tb1qgood", amount |-> 1000]>>,
       <<[m |-> "add_recipient", address |-> "tb1qgood", amount |-> 2000],
         [m |-> "drain_to", address |-> "bogus"]>> >>

NoCall == [op |-> "none"]
InitOutside ==
    /\ ctor = [pc |-> "idle", args |-> NoCall, any_database_config |-> None,
               any_blockchain_config |-> None, created |-> <<>>, ret |-> NoRet]
    /\ keys = [prev |-> NoCall, last |-> NoCall]

InitThreads ==
    /\ InitOutside
    /\ mempool = {}
    /\ start = [wallets |-> wallets, psbts |-> psbts]
    /\ pc = [t \in Threads |-> "idle"]
    /\ call = [t \in Threads |-> NoCall]
    /\ loc = [t \in Threads |-> InitLoc]
    /\ ret = [t \in Threads |-> NoRet]

Init ==
    /\ builders = SharedBuilders
    /\ bcalls = SharedCalls
    /\ wallets = <<WalletHandle("testnet")>>
    /\ \E s \in InitialPsbtStrings :
        /\ PartiallySignedBitcoinTransaction_new(s).kind = "Ok"
        /\ psbts = <<PartiallySignedBitcoinTransaction_new(s).val>>
        /\ snapshots = <<{PartiallySignedBitcoinTransaction_new(s).val.psbt}>>
    /\ InitThreads

Step(t) ==
    \/ Call(t)
    \/ PSBT_serialize(t)
    \/ Wallet_get_wallet(t)
    \/ Wallet_get_network(t)
    \/ Wallet_sync_update(t)
    \/ Wallet_sync(t)
    \/ Wallet_get_new_address_read(t)
    \/ Wallet_get_new_address(t)
    \/ Wallet_get_last_unused_address(t)
    \/ Wallet_get_balance(t)
    \/ Wallet_get_transactions(t)
    \/ Wallet_sign_lock(t)
    \/ Wallet_sign_input(t)
    \/ Wallet_sign(t)
    \/ Wallet_broadcast_extract(t)
    \/ Wallet_broadcast(t)
    \/ TxBuilder_build(t)

Next == \E t \in Threads : Step(t)

Spec == Init /\ [][Next]_vars

(***************************************************************************)
(* The sequential meaning of a call: what it returns and what it leaves    *)
(* behind when nothing runs beside it.  A run of the threads is            *)
(* serializable when some order of the finished calls, each run like this, *)
(* gives the same return values and the same final state.                  *)
(***************************************************************************)
SerialState(ws, ps, mp, rs) == [wallets |-> ws, psbts |-> ps, mempool |-> mp, rets |-> rs]

RECURSIVE SignInputs(_, _, _)
SignInputs(psbt, k, last) ==
    IF k > last THEN psbt ELSE SignInputs(Engine_sign_input(psbt, k), k + 1, last)

SerialReturn(st, t, r) == [st EXCEPT !.rets[t] = r]

SerialWalletCall(st, t, c) ==
    LET eng == st.wallets[c.w].engine
    IN  CASE c.op = "get_network" ->
                SerialReturn(st, t, Val(eng.network))
          [] c.op = "sync" ->
                IF c.fail
                THEN SerialReturn(st, t, Err(BdkError("Electrum", <<"connection", "failed">>)))
                ELSE SerialReturn([st EXCEPT !.wallets[c.w].engine.height = @ + 1], t, Ok(Unit))
          [] c.op = "get_new_address" ->
                IF c.fail
                THEN SerialReturn([st EXCEPT !.wallets[c.w].poisoned = TRUE], t, Panic("unwrap"))
                ELSE SerialReturn([st EXCEPT !.wallets[c.w].engine.index = @ + 1], t,
                                  Val(Engine_address(eng, eng.index + 1)))
          [] c.op = "get_last_unused_address" ->
                IF c.fail
                THEN SerialReturn([st EXCEPT !.wallets[c.w].poisoned = TRUE], t, Panic("unwrap"))
                ELSE SerialReturn(st, t, Val(Engine_address(eng, eng.index)))
          [] c.op = "get_balance" ->
                SerialReturn(st, t, IF c.fail THEN Err(DatabaseError)
                                    ELSE Ok(Engine_balance(eng)))
          [] c.op = "get_transactions" ->
                SerialReturn(st, t,
                    IF c.fail THEN Err(DatabaseError)
                    ELSE Ok([i \in 1..eng.height |->
                                Transaction_from(Engine_list_transactions(eng)[i])]))
          [] c.op = "sign" ->
                LET last == IF c.fail_at = 0 THEN NumInputs ELSE c.fail_at - 1
                    signed == SignInputs(st.psbts[c.p].psbt, 1, last)
                IN  SerialReturn([st EXCEPT !.psbts[c.p].psbt = signed], t,
                                 IF c.fail_at # 0 THEN Err(SignerError)
                                 ELSE Wallet_sign_result(signed))
          [] c.op = "broadcast" ->
                LET tx == Psbt_extract_tx(st.psbts[c.p].psbt)
                IN  IF c.fail
                    THEN SerialReturn(st, t,
                            Err(BdkError("Electrum", <<"transaction", "rejected">>)))
                    ELSE SerialReturn([st EXCEPT !.mempool = @ \cup {tx}], t,
                                      Ok(to_hex(tx.txid)))
          [] c.op = "build" ->
                LET b == BuildCalls(builders[c.b])
                    finished == Engine_finish(eng, b.calls)
                IN  IF b.error # None THEN SerialReturn(st, t, Err(b.error[1]))
                    ELSE IF finished.kind = "Err" THEN SerialReturn(st, t, finished)
                    ELSE SerialReturn(
                            [st EXCEPT !.psbts = Append(@, PsbtHandle(finished.val))],
                            t, Ok(Len(st.psbts) + 1))

SerialCall(st, t, c) ==
    IF c.op \in {"serialize", "sign", "broadcast"} /\ c.p \notin DOMAIN st.psbts
    THEN SerialReturn(st, t, Panic("no such handle"))
    ELSE IF c.op = "serialize"
    THEN SerialReturn(st, t, IF st.psbts[c.p].poisoned THEN Panic("PoisonError")
                             ELSE Val(Psbt_to_string(st.psbts[c.p].psbt)))
    ELSE IF c.op \in {"sign", "broadcast"} /\ st.psbts[c.p].poisoned
    THEN SerialReturn(st, t, Panic("PoisonError"))
    ELSE IF st.wallets[c.w].poisoned
    THEN SerialReturn(
            IF c.op = "sign" THEN [st EXCEPT !.psbts[c.p].poisoned = TRUE] ELSE st,
            t, Panic("wallet"))
    ELSE SerialWalletCall(st, t, c)

RECURSIVE SerialRun(_, _, _)
SerialRun(st, order, i) ==
    IF i > Len(order) THEN st
    ELSE SerialRun(SerialCall(st, order[i], call[order[i]]), order, i + 1)

Finished == {t \in Threads : pc[t] = "done"}

Orders(S) ==
    {o \in [1..Cardinality(S) -> S] : \A i, j \in DOMAIN o : i # j => o[i] # o[j]}

StartState == SerialState(start.wallets, start.psbts, {}, [t \in Threads |-> NoRet])

\* The state the threads have reached, as a serial run would leave it.
ReachedState == SerialState(wallets, psbts, mempool, ret)

(***************************************************************************)
(* C2.  Calls made concurrently on one Wallet handle never deadlock, at    *)
(* most one thread is inside the engine at a time, and once every call has *)
(* returned, the return values, the wallet, the PSBT handles and the       *)
(* backend's transactions are those of some serial order of the calls.     *)
(***************************************************************************)
EnginePcs ==
    {"get_network", "sync", "get_new_address", "get_new_address_store",
     "get_last_unused_address", "get_balance", "get_transactions",
     "sign_engine", "broadcast_engine", "build"}

InEngine(t) == pc[t] \in EnginePcs

NoDeadlock == (\E t \in Threads : InCall(t)) => \E t \in Threads : ENABLED Step(t)

MutualExclusion ==
    \A w \in DOMAIN wallets :
        Cardinality({t \in Threads : InEngine(t) /\ call[t].w = w}) <= 1

Serializable ==
    (\A t \in Threads : ~InCall(t)) =>
        \E o \in Orders(Finished) : SerialRun(StartState, o, 1) = ReachedState

C2_ConcurrentCallsSerialize == NoDeadlock /\ MutualExclusion /\ Serializable

\* Two threads met at the wallet mutex: one is inside the engine deriving an
\* address while the other waits in get_wallet.
C2_Witness ==
    \E t, u \in Threads :
        /\ pc[t] = "get_new_address_store"
        /\ pc[u] = "get_wallet"
        /\ call[u].op = "get_new_address"

(***************************************************************************)
(* C3.  Whatever serialize returns, and whatever broadcast extracts, is    *)
(* the whole of the PSBT as it was before or after a sign, never the PSBT  *)
(* of a sign under way.                                                    *)
(***************************************************************************)
C3_NoTornPsbt ==
    \A t \in Threads :
        /\ (call[t].op = "serialize" /\ pc[t] = "done" /\ ret[t].kind = "Val") =>
                ret[t].val \in {Psbt_to_string(c) : c \in snapshots[call[t].p]}
        /\ (call[t].op = "broadcast" /\ loc[t].tx # None) =>
                loc[t].tx[1] \in {Psbt_extract_tx(c) : c \in snapshots[call[t].p]}

\* A sign has finalized the first input and not yet the rest, and holds the PSBT
\* mutex, while a serialize and nothing else waits for it.
C3_Witness ==
    \E t, u \in Threads :
        /\ pc[t] = "serialize"
        /\ call[u].op = "sign" /\ pc[u] = "sign_engine" /\ call[u].p = call[t].p
        /\ loc[u].i = 1
        /\ psbts[call[u].p].psbt \notin snapshots[call[u].p]

(***************************************************************************)
(* C4.  sign returns Ok exactly when the engine signed without error and   *)
(* left the PSBT finalized; not finalized is an error saying "not          *)
(* finalized"; an engine error is returned as it is.  Either way the       *)
(* inputs the engine finalized stay finalized in the handle, whose string  *)
(* form parses back and shows them.                                        *)
(***************************************************************************)
EngineSigned(c, psbt, i) ==
    /\ psbt.inputs[i].owner = WalletKey
    /\ c.fail_at = 0 \/ i < c.fail_at

C4_SignResult ==
    \A t \in Threads :
        (call[t].op = "sign" /\ pc[t] = "done" /\ ret[t].kind # "Panic") =>
            LET c == call[t]
                signed == loc[t].signed[1]
                seen == Psbt_from_str(Psbt_to_string(psbts[c.p].psbt))
            IN  /\ (ret[t] = Ok(Unit)) <=> (c.fail_at = 0 /\ Finalized(signed))
                /\ (c.fail_at = 0 /\ ~Finalized(signed)) =>
                        /\ ret[t].kind = "Err"
                        /\ Contains(ret[t].val.msg, <<"not", "finalized">>)
                /\ (c.fail_at # 0) => ret[t] = Err(SignerError)
                /\ seen.kind = "Ok"
                /\ \A i \in Inputs :
                        EngineSigned(c, signed, i) => seen.val.inputs[i].final

\* A sign that finalized the wallet's input and returned "not finalized" because
\* of somebody else's.
C4_Witness ==
    \E t \in Threads :
        /\ call[t].op = "sign" /\ pc[t] = "done"
        /\ ret[t].kind = "Err" /\ ret[t].val.variant = "Generic"
        /\ psbts[call[t].p].psbt.inputs[1].final
        /\ ~start.psbts[call[t].p].psbt.inputs[1].final

(***************************************************************************)
(* C8.  No step of broadcast changes a PSBT handle, whatever broadcast     *)
(* returns, and broadcast does not hold the PSBT mutex while it waits for  *)
(* the wallet mutex or holds it.                                           *)
(***************************************************************************)
BroadcastMoves(t) ==
    /\ call[t].op = "broadcast"
    /\ pc[t] \in {"broadcast", "get_wallet", "broadcast_engine"}
    /\ pc'[t] # pc[t]

BroadcastHoldsPsbt(t) ==
    /\ call[t].op = "broadcast"
    /\ pc[t] \in {"get_wallet", "broadcast_engine"}
    /\ psbts[call[t].p].holder = t

C8_BroadcastLeavesPsbt ==
    [][\A t \in Threads :
        /\ BroadcastMoves(t) => psbts' = psbts
        /\ ~BroadcastHoldsPsbt(t)']_vars

\* One broadcast returned a txid and another a backend error, and the PSBT handle
\* is as it was.
C8_Witness ==
    \E t, u \in Threads :
        /\ call[t].op = "broadcast" /\ pc[t] = "done" /\ ret[t].kind = "Ok"
        /\ call[u].op = "broadcast" /\ pc[u] = "done" /\ ret[u].kind = "Err"
        /\ psbts = start.psbts

(***************************************************************************)
(* C9.  The callback has received exactly the updates the engine issued,   *)
(* in order and unchanged; a sync that returns has issued all of them and  *)
(* returns the engine's own result, whatever the callback did.             *)
(***************************************************************************)
C9_ProgressForwarded ==
    \A t \in Threads :
        call[t].op = "sync" =>
            /\ loc[t].received = loc[t].issued
            /\ (pc[t] = "done" /\ ret[t].kind # "Panic") =>
                    /\ Len(loc[t].issued) = call[t].updates
                    /\ \A k \in 1..call[t].updates :
                            loc[t].received[k] = ProgressUpdate(k, call[t].updates)
                    /\ ret[t] = IF call[t].fail
                                THEN Err(BdkError("Electrum", <<"connection", "failed">>))
                                ELSE Ok(Unit)

\* A sync during which the callback failed has gone through all its updates and
\* returned Ok.
C9_Witness ==
    \E t \in Threads :
        /\ call[t].op = "sync" /\ pc[t] = "done"
        /\ call[t].updates = MaxUpdates
        /\ loc[t].cb_errors = 1
        /\ Len(loc[t].received) = MaxUpdates
        /\ ret[t] = Ok(Unit)

(***************************************************************************)
(* The builder specification: the foreign side makes builder handles with  *)
(* the configuration methods and builds any of them on a synced wallet.    *)
(***************************************************************************)
SyncedWallet(network, height) ==
    [WalletHandle(network) EXCEPT !.engine.height = height]

InitTx ==
    /\ builders = <<TxBuilder_new>>
    /\ bcalls = << <<>> >>
    /\ wallets = <<SyncedWallet("testnet", 2)>>
    /\ psbts = <<>>
    /\ snapshots = <<>>
    /\ InitThreads

\* One handle is built per behaviour here, by any number of threads; builds of
\* different handles side by side are the business of Spec.
CallBuild(t) ==
    /\ Len(psbts) + BuildsInFlight < MaxPsbts
    /\ \E b \in DOMAIN builders :
        /\ \A u \in Threads : IF pc[u] = "idle" THEN TRUE ELSE call[u].b = b
        /\ Begin(t, [op |-> "build", w |-> 1, b |-> b])

NextTx ==
    \/ CallNew
    \/ CallAddRecipient
    \/ CallFeeRate
    \/ CallDrainWallet
    \/ CallDrainTo
    \/ \E t \in Threads :
        \/ CallBuild(t)
        \/ Wallet_get_wallet(t)
        \/ TxBuilder_build(t)

SpecTx == InitTx /\ [][NextTx]_vars

(***************************************************************************)
(* C1.  Every builder handle holds the accumulation of the calls that made *)
(* it: the recipients in call order, the last fee rate and drain address   *)
(* set, drain_wallet iff it was called; and no call, on it or on any other *)
(* handle, changes a handle that exists.                                   *)
(***************************************************************************)
LastCall(calls, m) ==
    LET at == {i \in DOMAIN calls : calls[i].m = m}
    IN  IF at = {} THEN None
        ELSE Some(calls[CHOOSE i \in at : \A j \in at : j <= i])

IsAddRecipient(c) == c.m = "add_recipient"

Accumulated(calls) ==
    LET added == SelectSeq(calls, IsAddRecipient)
        fee == LastCall(calls, "fee_rate")
        drain == LastCall(calls, "drain_to")
    IN  [recipients |-> [i \in DOMAIN added |-> <<added[i].address, added[i].amount>>],
         fee_rate |-> IF fee = None THEN None ELSE Some(fee[1].sat_per_vb),
         drain_wallet |-> LastCall(calls, "drain_wallet") # None,
         drain_to |-> IF drain = None THEN None ELSE Some(drain[1].address)]

C1_BuilderAccumulates ==
    [][/\ \A h \in DOMAIN builders' : builders'[h] = Accumulated(bcalls'[h])
       /\ \A h \in DOMAIN builders :
            /\ h \in DOMAIN builders'
            /\ builders'[h] = builders[h]
            /\ bcalls'[h] = bcalls[h]]_vars

\* b0 = new(), b1 = b0.add_recipient(..), b2 = b1.drain_to(..), b3 = b2.fee_rate(..):
\* b3 holds all three settings while b1 still holds the recipient alone.
C1_Witness ==
    /\ Len(builders) = 4
    /\ builders[1] = TxBuilder_new
    /\ Len(builders[2].recipients) = 1 /\ builders[2].drain_to = None
    /\ builders[3].drain_to # None /\ builders[3].fee_rate = None
    /\ builders[4].fee_rate # None /\ builders[4].drain_to # None
    /\ Len(builders[4].recipients) = 1

(***************************************************************************)
(* C7.  The first address of a builder that does not parse, in the order   *)
(* build meets them: the recipients, then drain_to.                        *)
(***************************************************************************)
BadAddresses(self) ==
    [i \in 1..Len(SelectSeq(self.recipients \o
                            (IF self.drain_to = None THEN <<>>
                             ELSE << <<self.drain_to[1], 0>> >>),
                            LAMBDA r : r[1] \notin ValidAddresses)) |->
        SelectSeq(self.recipients \o
                  (IF self.drain_to = None THEN <<>> ELSE << <<self.drain_to[1], 0>> >>),
                  LAMBDA r : r[1] \notin ValidAddresses)[i][1]]

BuiltBad(t) ==
    /\ call[t].op = "build"
    /\ pc[t] = "done"
    /\ BadAddresses(builders[call[t].b]) # <<>>

BuildsSucceeded == {t \in Threads : call[t].op = "build" /\ pc[t] = "done" /\ ret[t].kind = "Ok"}

\* The configuration methods take any address string.
AcceptsAnyAddress ==
    \A h \in DOMAIN builders, a \in Addresses :
        /\ TxBuilder_add_recipient(builders[h], a, 1000).recipients
                = Append(builders[h].recipients, <<a, 1000>>)
        /\ TxBuilder_drain_to(builders[h], a).drain_to = Some(a)

\* C7 as claimed: the error message of such a build includes the offending
\* address string.
C7_ErrorNamesAddress ==
    \A t \in Threads :
        BuiltBad(t) =>
            /\ ret[t].kind = "Err"
            /\ \E k \in DOMAIN ret[t].val.msg :
                    ret[t].val.msg[k] = BadAddresses(builders[call[t].b])[1]
            /\ Len(psbts) = Cardinality(BuildsSucceeded)
            /\ wallets[call[t].w].holder # t
            /\ AcceptsAnyAddress

\* C7 as amended: the error is Generic with the address parser's own text, and
\* nothing more; no PSBT handle is made, the wallet mutex is released, and the
\* configuration methods took the string without complaint.
C7_ErrorIsParserText ==
    \A t \in Threads :
        BuiltBad(t) =>
            /\ ret[t] = Err(Generic(AddressError_to_string(
                            Address_from_str(BadAddresses(builders[call[t].b])[1]).val)))
            /\ Len(psbts) = Cardinality(BuildsSucceeded)
            /\ wallets[call[t].w].holder # t
            /\ AcceptsAnyAddress

\* A build of a builder whose drain address does not parse, after a recipient
\* that does, has returned.
C7_Witness ==
    \E t \in Threads :
        /\ BuiltBad(t)
        /\ builders[call[t].b].drain_to = Some("bogus")
        /\ Len(builders[call[t].b].recipients) = 1
        /\ builders[call[t].b].recipients[1][1] \in ValidAddresses
        /\ ret[t].kind = "Err"
        /\ wallets[call[t].w].holder = NoThread

(***************************************************************************)
(* Wallet::new.  A u64 is four 16-bit limbs, lowest first; a usize is the  *)
(* lowest one, two or four of them, as the target has 16-, 32- or 64-bit   *)
(* pointers.                                                               *)
(***************************************************************************)
LimbValues == {0, 1, 65535}
U64 == [1..4 -> LimbValues]
UsizeLimbs == {1, 2, 4}

\* usize::try_from(u64): the value itself when the high limbs are zero.
usize_try_from(x, limbs) ==
    IF \A i \in DOMAIN x : i > limbs => x[i] = 0
    THEN Ok([i \in 1..limbs |-> x[i]])
    ELSE Err("TryFromIntError")

DatabaseConfigs == {"Memory", "Sled", "Sqlite"}
BlockchainConfigs == {"Electrum", "Esplora"}
ValidDescriptors == {"wpkh(key/0/*)", "wpkh(key/1/*)"}
Descriptors == {"wpkh(key/0/*)", "garbage"}
ChangeDescriptors == {None, Some("wpkh(key/1/*)"), Some("garbage")}

\* The arguments of a Wallet::new call, with the target it was built for and
\* the outcome of what it asks of the outside: opening the database, reaching
\* the blockchain backend.  The in-memory database always opens.
NewInputs ==
    { a \in [op : {"new"},
             descriptor : Descriptors,
             change_descriptor : ChangeDescriptors,
             network : {"testnet"},
             database_config : DatabaseConfigs,
             blockchain_config : BlockchainConfigs,
             stop_gap : U64,
             usize_limbs : UsizeLimbs,
             database_opens : BOOLEAN,
             blockchain_connects : BOOLEAN] :
        a.database_config = "Memory" => a.database_opens }

newframe == <<builders, bcalls, psbts, snapshots, mempool, start, pc, call, loc, ret, keys>>

CallWalletNew ==
    /\ ctor.pc = "idle"
    /\ \E a \in NewInputs : ctor' = [ctor EXCEPT !.pc = "config", !.args = a]
    /\ UNCHANGED <<newframe, wallets>>

\* lines 142-166: the two engine configs; the stop gap is narrowed and unwrapped.
Wallet_new_config ==
    /\ ctor.pc = "config"
    /\ LET stop_gap == usize_try_from(ctor.args.stop_gap, ctor.args.usize_limbs)
       IN  ctor' = IF stop_gap.kind = "Err"
                   THEN [ctor EXCEPT !.pc = "done", !.ret = Panic("unwrap")]
                   ELSE [ctor EXCEPT
                            !.pc = "database",
                            !.any_database_config =
                                Some([variant |-> ctor.args.database_config]),
                            !.any_blockchain_config =
                                Some([variant |-> ctor.args.blockchain_config,
                                      stop_gap |-> stop_gap.val])]
    /\ UNCHANGED <<newframe, wallets>>

\* line 167: AnyDatabase::from_config(..)?
Wallet_new_database ==
    /\ ctor.pc = "database"
    /\ ctor' = IF ctor.args.database_opens
               THEN [ctor EXCEPT
                        !.pc = "blockchain",
                        !.created = Append(@, [made |-> "database",
                                               config |-> ctor.any_database_config[1]])]
               ELSE [ctor EXCEPT
                        !.pc = "done",
                        !.ret = Err(BdkError(ctor.args.database_config,
                                             <<"cannot", "open", "database">>))]
    /\ UNCHANGED <<newframe, wallets>>

\* line 168: AnyBlockchain::from_config(..)?
Wallet_new_blockchain ==
    /\ ctor.pc = "blockchain"
    /\ ctor' = IF ctor.args.blockchain_connects
               THEN [ctor EXCEPT
                        !.pc = "wallet",
                        !.created = Append(@, [made |-> "blockchain",
                                               config |-> ctor.any_blockchain_config[1]])]
               ELSE [ctor EXCEPT
                        !.pc = "done",
                        !.ret = Err(BdkError(ctor.args.blockchain_config,
                                             <<"cannot", "reach", "backend">>))]
    /\ UNCHANGED <<newframe, wallets>>

\* lines 169-176: BdkWallet::new(..)? checks the descriptors; the engine wallet
\* goes into a fresh mutex and the handle is returned.
Wallet_new_wallet ==
    /\ ctor.pc = "wallet"
    /\ IF /\ ctor.args.descriptor \in ValidDescriptors
          /\ \A d \in {ctor.args.change_descriptor} : d = None \/ d[1] \in ValidDescriptors
       THEN /\ wallets' = Append(wallets, WalletHandle(ctor.args.network))
            /\ ctor' = [ctor EXCEPT
                            !.pc = "done",
                            !.created = Append(@, [made |-> "wallet",
                                                   config |-> ctor.args.descriptor]),
                            !.ret = Ok(Len(wallets) + 1)]
       ELSE /\ wallets' = wallets
            /\ ctor' = [ctor EXCEPT
                            !.pc = "done",
                            !.ret = Err(BdkError("Descriptor", <<"invalid", "descriptor">>))]
    /\ UNCHANGED newframe

InitNew ==
    /\ builders = <<TxBuilder_new>>
    /\ bcalls = << <<>> >>
    /\ wallets = <<>>
    /\ psbts = <<>>
    /\ snapshots = <<>>
    /\ InitThreads

NextNew ==
    \/ CallWalletNew
    \/ Wallet_new_config
    \/ Wallet_new_database
    \/ Wallet_new_blockchain
    \/ Wallet_new_wallet

SpecNew == InitNew /\ [][NextNew]_vars

(***************************************************************************)
(* C5.  A Wallet::new whose stop_gap does not fit a usize returns an Error *)
(* to the caller, and has created no database, blockchain or engine wallet *)
(* by then.                                                                *)
(***************************************************************************)
StopGapFits(a) == \A i \in DOMAIN a.stop_gap : i > a.usize_limbs => a.stop_gap[i] = 0

C5_StopGapRangeError ==
    (ctor.pc = "done" /\ ~StopGapFits(ctor.args)) =>
        /\ ctor.ret.kind = "Err"
        /\ ctor.created = <<>>
        /\ wallets = <<>>

(***************************************************************************)
(* The key helpers.  A mnemonic is a sequence of indices into the word     *)
(* list whose last word is the checksum of the others; the string one      *)
(* passes around is a sequence of tokens, words and spaces.  The word list *)
(* is cut down to its first four words.                                    *)
(***************************************************************************)
NumEntropies == 2   \* outcomes of the random generator per word count

Wordlist == <<"abandon", "ability", "able", "about">>
WordCounts == {12, 15, 18, 21, 24}
Passwords == {None, Some("hunter2")}
\* The networks keys are made for: the main one and one of the test ones.
KeyNetworks == {"bitcoin", "testnet"}

RECURSIVE WordSum(_)
WordSum(ws) == IF ws = <<>> THEN 0 ELSE Head(ws) + WordSum(Tail(ws))

Checksum(ws) == (WordSum(ws) % Len(Wordlist)) + 1

\* Mnemonic::generate((word_count, Language::English)): random words, then the checksum.
Mnemonic_generate(word_count, entropy) ==
    LET body == [i \in 1..(word_count - 1) |-> ((entropy * i) % Len(Wordlist)) + 1]
    IN  Append(body, Checksum(body))

\* Display for Mnemonic: the words, one space between two of them.
Mnemonic_to_string(m) ==
    [k \in 1..(2 * Len(m) - 1) |-> IF k % 2 = 1 THEN Wordlist[m[(k + 1) \div 2]] ELSE " "]

IsWordToken(tok) == tok # " "
WordIndex(w) == CHOOSE i \in DOMAIN Wordlist : Wordlist[i] = w

\* Mnemonic::parse_in(Language::English, s): split at whitespace, then check
\* the number of words, each word, and the checksum.
Mnemonic_parse_in(s) ==
    LET words == SelectSeq(s, IsWordToken)
    IN  IF Len(words) \notin WordCounts
        THEN Err("BadWordCount")
        ELSE IF \E i \in DOMAIN words : \A j \in DOMAIN Wordlist : Wordlist[j] # words[i]
        THEN Err("UnknownWord")
        ELSE LET m == [i \in DOMAIN words |-> WordIndex(words[i])]
             IN  IF m[Len(m)] # Checksum(SubSeq(m, 1, Len(m) - 1))
                 THEN Err("InvalidChecksum")
                 ELSE Ok(m)

\* The BIP-39 seed: the mnemonic stretched with the salt "mnemonic" + passphrase.
Mnemonic_to_seed(m, passphrase) == [mnemonic |-> m, salt |-> <<"mnemonic", passphrase>>]

\* A seed whose digest is no valid secret key has no master key.  Which seeds
\* those are is a property of the seed alone; one stands for them here.
InvalidMasterSeeds == {Mnemonic_to_seed(Mnemonic_generate(12, 1), "hunter2")}

\* (Mnemonic, Option<String>)::into_extended_key: no password is the empty passphrase.
into_extended_key(m, password) ==
    LET seed == Mnemonic_to_seed(m, IF password = None THEN "" ELSE password[1])
    IN  IF seed \in InvalidMasterSeeds
        THEN Err(BdkError("Key", <<"invalid", "secret", "key">>))
        ELSE Ok([master |-> seed])

into_xprv(xkey, network) == [network |-> network, key |-> xkey.master]

\* The base58 text of an xprv starts with its network's version bytes, which the
\* three test networks share; the fingerprint is a digest of the public key.
xprv_to_string(xprv) ==
    [version |-> IF xprv.network = "bitcoin" THEN "xprv" ELSE "tprv", key |-> xprv.key]

xprv_fingerprint(xprv) == [hash160 |-> xprv.key]
fingerprint_to_string(fp) == <<"hex", fp.hash160>>

ExtendedKeyInfo(mnemonic, xprv, fingerprint) ==
    [mnemonic |-> mnemonic, xprv |-> xprv, fingerprint |-> fingerprint]

\* generate_extended_key; `entropy` is what the random generator gave.
generate_extended_key(network, word_count, password, entropy) ==
    LET mnemonic == Mnemonic_generate(word_count, entropy)
        xkey == into_extended_key(mnemonic, password)
    IN  IF xkey.kind = "Err"
        THEN xkey
        ELSE LET xprv == into_xprv(xkey.val, network)
             IN  Ok(ExtendedKeyInfo(Mnemonic_to_string(mnemonic),
                                    xprv_to_string(xprv),
                                    fingerprint_to_string(xprv_fingerprint(xprv))))

\* A restore that leaves the password out of the seed.
restore_extended_key_unsalted(network, mnemonic, password) ==
    LET parsed == Mnemonic_parse_in(mnemonic)
    IN  IF parsed.kind = "Err"
        THEN Panic("unwrap")
        ELSE LET xkey == into_extended_key(parsed.val, None)
             IN  IF xkey.kind = "Err"
                 THEN xkey
                 ELSE LET xprv == into_xprv(xkey.val, network)
                      IN  Ok(ExtendedKeyInfo(Mnemonic_to_string(parsed.val),
                                             xprv_to_string(xprv),
                                             fingerprint_to_string(xprv_fingerprint(xprv))))

\* restore_extended_key: the parse is unwrapped.
restore_extended_key(network, mnemonic, password) ==
    LET parsed == Mnemonic_parse_in(mnemonic)
    IN  IF parsed.kind = "Err"
        THEN Panic("unwrap")
        ELSE LET xkey == into_extended_key(parsed.val, password)
             IN  IF xkey.kind = "Err"
                 THEN xkey
                 ELSE LET xprv == into_xprv(xkey.val, network)
                      IN  Ok(ExtendedKeyInfo(Mnemonic_to_string(parsed.val),
                                             xprv_to_string(xprv),
                                             fingerprint_to_string(xprv_fingerprint(xprv))))

keyframe == <<builders, bcalls, wallets, psbts, snapshots, mempool, start, pc, call, loc, ret,
              ctor>>

\* The two calls remembered after call c.
Remember(c) == [prev |-> keys.last, last |-> c]

KeyCalls == {c \in {keys.prev, keys.last} : c.op # "none"}

GenerateExtendedKey ==
    \E network \in KeyNetworks, word_count \in WordCounts, password \in Passwords,
       entropy \in 1..NumEntropies :
        /\ keys' = Remember([op |-> "generate", network |-> network,
                              word_count |-> word_count, password |-> password,
                              ret |-> generate_extended_key(network, word_count,
                                                            password, entropy)])
        /\ UNCHANGED keyframe

\* The mnemonic strings a caller has at hand: those the helpers returned, the
\* same with a second space after the first word, and some that are no mnemonic:
\* the empty string, a single word, a word that is not in the list, a wrong
\* checksum word.
ReturnedMnemonics == {c.ret.val.mnemonic : c \in {k \in KeyCalls : k.ret.kind = "Ok"}}
Respaced(s) == SubSeq(s, 1, 2) \o <<" ">> \o SubSeq(s, 3, Len(s))
BadMnemonics ==
    LET m == Mnemonic_generate(12, 1)
    IN  { <<>>,
          <<"abandon">>,
          [Mnemonic_to_string(m) EXCEPT ![1] = "bitcoin"],
          Mnemonic_to_string([m EXCEPT ![Len(m)] = (m[Len(m)] % Len(Wordlist)) + 1]) }

MnemonicInputs ==
    ReturnedMnemonics \cup {Respaced(s) : s \in ReturnedMnemonics} \cup BadMnemonics

RestoreExtendedKey ==
    \E network \in KeyNetworks, mnemonic \in MnemonicInputs, password \in Passwords :
        /\ keys' = Remember([op |-> "restore", network |-> network,
                              mnemonic |-> mnemonic, password |-> password,
                              ret |-> restore_extended_key(network, mnemonic, password)])
        /\ UNCHANGED keyframe

InitKeys ==
    /\ builders = <<TxBuilder_new>>
    /\ bcalls = << <<>> >>
    /\ wallets = <<>>
    /\ psbts = <<>>
    /\ snapshots = <<>>
    /\ InitThreads

NextKeys ==
    \/ GenerateExtendedKey
    \/ RestoreExtendedKey

SpecKeys == InitKeys /\ [][NextKeys]_vars

(***************************************************************************)
(* C6.  restore_extended_key of a string that is no valid mnemonic returns *)
(* an Error value: it neither panics nor returns an ExtendedKeyInfo.       *)
(***************************************************************************)
C6_InvalidMnemonicIsError ==
    \A c \in KeyCalls :
        (c.op = "restore" /\ Mnemonic_parse_in(c.mnemonic).kind = "Err") =>
            c.ret.kind = "Err"

(***************************************************************************)
(* C10.  What generate_extended_key returned, restore_extended_key returns *)
(* again for the returned mnemonic, the same network and the same          *)
(* password; and two calls with the same mnemonic, password and network    *)
(* return the same, whatever was called in between.                        *)
(***************************************************************************)
SameKeyInputs(c, d) ==
    /\ c.network = d.network
    /\ c.password = d.password
    /\ (IF c.op = "restore" THEN c.mnemonic ELSE c.ret.val.mnemonic)
         = (IF d.op = "restore" THEN d.mnemonic ELSE d.ret.val.mnemonic)

C10_RestoreRoundTrip ==
    /\ \A c \in KeyCalls :
        (c.op = "generate" /\ c.ret.kind = "Ok") =>
            restore_extended_key(c.network, c.ret.val.mnemonic, c.password) = c.ret
    /\ \A c, d \in KeyCalls :
        ((c.op = "restore" \/ c.ret.kind = "Ok") /\ (d.op = "restore" \/ d.ret.kind = "Ok")
            /\ SameKeyInputs(c, d)) => c.ret = d.ret

\* A generate with a password, then the restore of what it returned.
C10_Witness ==
    /\ keys.prev.op = "generate"
    /\ keys.prev.word_count = 24
    /\ keys.prev.password = Some("hunter2")
    /\ keys.prev.ret.kind = "Ok"
    /\ keys.last.op = "restore"
    /\ keys.last.network = keys.prev.network
    /\ keys.last.password = keys.prev.password
    /\ keys.last.mnemonic = keys.prev.ret.val.mnemonic
    /\ keys.last.ret = keys.prev.ret

(***************************************************************************)
(* C11.  The engine-builder calls a build has to make for a builder: one   *)
(* add_recipient per recipient in insertion order, fee_rate if set,        *)
(* drain_wallet if set, drain_to if set, finish; all of it cut off where   *)
(* the first address fails to parse.                                       *)
(***************************************************************************)
Parses(address) == address \in ValidAddresses

\* The number of recipients in front of the first one whose address does not parse.
ParsedRecipients(self) ==
    LET bad == {i \in DOMAIN self.recipients : ~Parses(self.recipients[i][1])}
    IN  IF bad = {} THEN Len(self.recipients)
        ELSE (CHOOSE i \in bad : \A j \in bad : i <= j) - 1

ExpectedCalls(self) ==
    LET n == ParsedRecipients(self)
        adds == [i \in 1..n |-> [m |-> "add_recipient",
                                 script |-> to_script_pubkey(self.recipients[i][1]).val,
                                 amount |-> self.recipients[i][2]]]
        fee == IF self.fee_rate = None THEN <<>>
               ELSE <<[m |-> "fee_rate", rate |-> [sat_per_vb |-> self.fee_rate[1]]]>>
        wallet == IF self.drain_wallet THEN <<[m |-> "drain_wallet"]>> ELSE <<>>
        drain == IF self.drain_to = None THEN <<>>
                 ELSE <<[m |-> "drain_to", script |-> to_script_pubkey(self.drain_to[1]).val]>>
    IN  IF n < Len(self.recipients)
        THEN adds
        ELSE IF self.drain_to # None /\ ~Parses(self.drain_to[1])
        THEN adds \o fee \o wallet
        ELSE adds \o fee \o wallet \o drain \o <<[m |-> "finish"]>>

Built(t) == call[t].op = "build" /\ pc[t] = "done"

\* C11: build runs under the wallet mutex from its first engine-builder call to
\* its return, the calls it has issued are those of ExpectedCalls, in that
\* order, two builds of one handle have issued the same calls, and no step of a
\* build changes a builder handle.
C11_BuildCallOrder ==
    [][\A t \in Threads :
        /\ (pc[t] = "build" =>
                /\ wallets[call[t].w].holder = t
                /\ pc'[t] \in {"build", "done"})
        /\ ((pc[t] = "build" /\ pc'[t] = "done") =>
                /\ loc'[t].calls = ExpectedCalls(builders[call[t].b])
                /\ wallets'[call[t].w].holder = NoThread
                /\ builders' = builders)
        /\ (Built(t)' =>
                \A u \in Threads :
                    (Built(u)' /\ call'[u].b = call'[t].b) => loc'[u].calls = loc'[t].calls)
      ]_vars

\* Two builds of one handle have returned: the handle has a recipient, a fee
\* rate and a drain address that parses, so the calls run up to finish.
C11_Witness ==
    \E t, u \in Threads :
        /\ t # u
        /\ Built(t) /\ Built(u)
        /\ call[t].b = call[u].b
        /\ Len(builders[call[t].b].recipients) = 1
        /\ builders[call[t].b].fee_rate # None
        /\ builders[call[t].b].drain_to = Some("tb1qgood")
        /\ Len(loc[t].calls) = 4
        /\ loc[t].calls[4].m = "finish"

(***************************************************************************)
(* The locking specification: two Wallet handles and two PSBT handles      *)
(* shared by all threads; every thread makes one call of sign, broadcast,  *)
(* serialize or build, on any of them.  A thread that can take a step      *)
(* takes one in the end: the scheduler runs it and the engine returns.     *)
(***************************************************************************)
LockCallInputs ==
    [op : {"sign"}, w : DOMAIN wallets, p : DOMAIN psbts, fail_at : 0..NumInputs]
    \cup [op : {"broadcast"}, w : DOMAIN wallets, p : DOMAIN psbts, fail : BOOLEAN]
    \cup [op : {"serialize"}, p : DOMAIN psbts]
    \cup [op : {"build"}, w : DOMAIN wallets, b : DOMAIN builders]

CallLocked(t) == \E c \in LockCallInputs : Begin(t, c)

InitLocks ==
    /\ builders = SharedBuilders
    /\ bcalls = SharedCalls
    /\ wallets = <<SyncedWallet("testnet", 2), WalletHandle("testnet")>>
    /\ \E s \in InitialPsbtStrings :
        /\ PartiallySignedBitcoinTransaction_new(s).kind = "Ok"
        /\ psbts = <<PartiallySignedBitcoinTransaction_new(s).val,
                     PartiallySignedBitcoinTransaction_new(s).val>>
        /\ snapshots = <<{PartiallySignedBitcoinTransaction_new(s).val.psbt},
                         {PartiallySignedBitcoinTransaction_new(s).val.psbt}>>
    /\ InitThreads

StepLocks(t) ==
    \/ CallLocked(t)
    \/ PSBT_serialize(t)
    \/ Wallet_get_wallet(t)
    \/ Wallet_sign_lock(t)
    \/ Wallet_sign_input(t)
    \/ Wallet_sign(t)
    \/ Wallet_broadcast_extract(t)
    \/ Wallet_broadcast(t)
    \/ TxBuilder_build(t)

NextLocks == \E t \in Threads : StepLocks(t)

SpecLocks == InitLocks /\ [][NextLocks]_vars /\ \A t \in Threads : WF_vars(StepLocks(t))

(***************************************************************************)
(* C12.  No thread asks for a PSBT mutex while it holds a wallet mutex;    *)
(* sign asks for the wallet mutex holding the PSBT mutex, broadcast and    *)
(* build ask for it holding no PSBT mutex; no set of threads waits in a    *)
(* circle; and every call that has begun returns.                          *)
(***************************************************************************)
RequestsPsbt(t) == pc[t] \in {"serialize", "sign", "broadcast"}
RequestsWallet(t) == pc[t] = "get_wallet"
HoldsWallet(t) == \E w \in DOMAIN wallets : wallets[w].holder = t
HoldsPsbt(t) == \E p \in DOMAIN psbts : psbts[p].holder = t

\* Thread t is blocked on a mutex that thread u holds.
WaitsFor(t, u) ==
    \/ RequestsPsbt(t) /\ psbts[call[t].p].holder = u
    \/ RequestsWallet(t) /\ wallets[call[t].w].holder = u

NoCircularWait ==
    \A S \in (SUBSET Threads) \ {{}} :
        \E t \in S : \A u \in S : ~WaitsFor(t, u)

LockOrder ==
    \A t \in Threads :
        /\ RequestsPsbt(t) => ~HoldsWallet(t)
        /\ (RequestsWallet(t) /\ call[t].op = "sign") => psbts[call[t].p].holder = t
        /\ (InCall(t) /\ call[t].op \in {"broadcast", "build"} /\ ~RequestsPsbt(t))
                => ~HoldsPsbt(t)
        /\ (InCall(t) /\ call[t].op = "serialize") => ~HoldsPsbt(t) /\ ~HoldsWallet(t)

C12_LockOrderTerminates ==
    /\ [](LockOrder /\ NoCircularWait /\ NoDeadlock)
    /\ \A t \in Threads : InCall(t) ~> (pc[t] = "done")

\* Two wallets sign the same PSBT side by side: one thread holds the PSBT mutex
\* and a wallet mutex, the other waits for the PSBT mutex.
C12_Witness ==
    \E t, u \in Threads :
        /\ call[t].op = "sign" /\ call[u].op = "sign"
        /\ call[t].p = call[u].p
        /\ call[t].w # call[u].w
        /\ pc[t] = "sign_engine"
        /\ pc[u] = "sign"
        /\ WaitsFor(u, t)

(***************************************************************************)
(* The sync specification: one Wallet handle; every thread makes one call  *)
(* of a wallet method or of build, and the progress callback of a sync may *)
(* itself call a method of the wallet.                                     *)
(***************************************************************************)
SyncCallInputs ==
    [op : {"sync"}, w : DOMAIN wallets, updates : 0..MaxUpdates, fail : BOOLEAN,
     reenters : BOOLEAN]
    \cup [op : {"get_network"}, w : DOMAIN wallets]
    \cup [op : {"get_new_address", "get_last_unused_address",
                "get_balance", "get_transactions"},
          w : DOMAIN wallets, fail : BOOLEAN]
    \cup [op : {"build"}, w : DOMAIN wallets, b : DOMAIN builders]

CallSynced(t) == \E c \in SyncCallInputs : Begin(t, c)

InitSync ==
    /\ builders = SharedBuilders
    /\ bcalls = SharedCalls
    /\ wallets = <<WalletHandle("testnet")>>
    /\ psbts = <<>>
    /\ snapshots = <<>>
    /\ InitThreads

StepSync(t) ==
    \/ CallSynced(t)
    \/ Wallet_get_wallet(t)
    \/ Wallet_get_network(t)
    \/ Wallet_sync_update(t)
    \/ Wallet_sync(t)
    \/ Wallet_get_new_address_read(t)
    \/ Wallet_get_new_address(t)
    \/ Wallet_get_last_unused_address(t)
    \/ Wallet_get_balance(t)
    \/ Wallet_get_transactions(t)
    \/ TxBuilder_build(t)

NextSync == \E t \in Threads : StepSync(t)

SpecSync == InitSync /\ [][NextSync]_vars

(***************************************************************************)
(* C13.  A thread in sync holds the wallet mutex at every step up to its   *)
(* return, the callback's included; while it does, no other call on the    *)
(* wallet gets past the lock, returns, or changes the wallet; and once its *)
(* callback has called a method of the wallet, the thread stays at that    *)
(* lock and its sync has no return value, ever.                            *)
(***************************************************************************)
InSync(t) == call[t].op = "sync" /\ pc[t] \in {"sync", "callback_get_wallet"}
BlockedInCallback(t) == pc[t] = "callback_get_wallet"

C13_SyncHoldsMutex ==
    [][\A t \in Threads :
        /\ InSync(t) =>
            /\ wallets[call[t].w].holder = t
            /\ \A u \in Threads \ {t} :
                (InCall(u) /\ call[u].w = call[t].w) =>
                    /\ pc[u] = "get_wallet"
                    /\ pc'[u] = "get_wallet"
                    /\ ret'[u] = NoRet
            /\ (pc'[t] # "done") =>
                    wallets'[call[t].w].engine = wallets[call[t].w].engine
        /\ BlockedInCallback(t) =>
            /\ BlockedInCallback(t)'
            /\ ret'[t] = NoRet
            /\ wallets'[call[t].w].holder = t
      ]_vars

\* A sync whose callback has called the wallet on the first of two updates,
\* and another thread waiting for the wallet.
C13_Witness ==
    \E t, u \in Threads :
        /\ t # u
        /\ call[t].op = "sync"
        /\ call[t].updates = 2
        /\ BlockedInCallback(t)
        /\ Len(loc[t].received) = 1
        /\ pc[u] = "get_wallet"
        /\ call[u].op = "get_balance"
        /\ call[u].w = call[t].w

(***************************************************************************)
(* The poisoning specification: the handles and calls of Spec; once the    *)
(* wallet is poisoned, a thread whose call is over may make another.       *)
(***************************************************************************)
Again(t) ==
    /\ pc[t] = "done"
    /\ \E w \in DOMAIN wallets : wallets[w].poisoned
    /\ pc' = [pc EXCEPT ![t] = "idle"]
    /\ call' = [call EXCEPT ![t] = NoCall]
    /\ loc' = [loc EXCEPT ![t] = InitLoc]
    /\ ret' = [ret EXCEPT ![t] = NoRet]
    /\ UNCHANGED <<outside, wallets, psbts, snapshots, mempool>>

NextPoison ==
    \E t \in Threads :
        \/ Step(t)
        \/ Again(t)

SpecPoison == Init /\ [][NextPoison]_vars

(***************************************************************************)
(* C14.  A failed address derivation panics under the wallet mutex and     *)
(* poisons it; a poisoned wallet stays poisoned and unchanged, and every   *)
(* call on it ends in a panic without entering the engine; a sign that     *)
(* panics at the wallet lock poisons the PSBT mutex it holds; and every    *)
(* serialize, broadcast or sign that comes to the lock of a poisoned PSBT  *)
(* panics there.                                                           *)
(***************************************************************************)
Derives(t) ==
    /\ call[t].op \in {"get_new_address", "get_last_unused_address"}
    /\ pc[t] \in {"get_new_address_store", "get_last_unused_address"}

OnWallet(t, w) == InCall(t) /\ call[t].op # "serialize" /\ call[t].w = w
AtPsbtLock(t, p) == pc[t] \in {"serialize", "broadcast", "sign"} /\ call[t].p = p
Panicked(t) == pc[t] = "done" /\ ret[t].kind = "Panic"

C14_PoisonSpreads ==
    [][\A t \in Threads :
        /\ (Derives(t) /\ call[t].fail /\ pc'[t] # pc[t]) =>
            /\ wallets[call[t].w].holder = t
            /\ Panicked(t)'
            /\ wallets'[call[t].w].poisoned
            /\ wallets'[call[t].w].holder = NoThread
        /\ \A w \in DOMAIN wallets :
            wallets[w].poisoned =>
                /\ wallets'[w] = wallets[w]
                /\ OnWallet(t, w) =>
                    /\ ~InEngine(t) /\ ~InEngine(t)'
                    /\ (pc'[t] = "done") => Panicked(t)'
                /\ (OnWallet(t, w) /\ call[t].op = "sign" /\ pc[t] = "get_wallet"
                        /\ pc'[t] # pc[t]) =>
                    /\ psbts[call[t].p].holder = t
                    /\ psbts'[call[t].p].poisoned
                    /\ psbts'[call[t].p].holder = NoThread
        /\ \A p \in DOMAIN psbts :
            psbts[p].poisoned =>
                /\ psbts'[p] = psbts[p]
                /\ (AtPsbtLock(t, p) /\ pc'[t] # pc[t]) => Panicked(t)'
      ]_vars

\* After a failed derivation and a sign on the poisoned wallet, a serialize of
\* the PSBT that sign held has panicked.
C14_Witness ==
    /\ wallets[1].poisoned
    /\ psbts[1].poisoned
    /\ \E t, u \in Threads :
        /\ call[t].op = "sign" /\ call[t].p = 1
        /\ pc[t] = "done" /\ ret[t] = Panic("wallet")
        /\ call[u].op = "serialize" /\ call[u].p = 1
        /\ pc[u] = "done" /\ ret[u] = Panic("PoisonError")

=============================================================================
